---- MODULE Spec2Model ----
(***************************************************************************)
(* containerd-hvf: the task service (pkg/hvf/shim.go), the VM it           *)
(* supervises (pkg/hvf/vm.go) and the event topic resolver.                *)
(*                                                                         *)
(* The virtualization engine (libvirt), the engine's pid file and the      *)
(* event publisher are outside the repository: every answer they give is   *)
(* an input of the action that asks, drawn from the answers the call can   *)
(* produce.                                                                *)
(***************************************************************************)
EXTENDS Naturals, Integers, Sequences, FiniteSets, TLC

\* ---------------------------------------------------------------- bounds
\* VM objects NewVM may allocate in one run.
MaxVMs == 1
\* Protocol calls issued in one run.
MaxCalls == 4
\* Outstanding or finished Wait calls in one run.
MaxWaiters == 2

\* ------------------------------------------------------- program constants
\* make(chan interface{}, 128)
EventsCap == 128
\* Status queries a waiter's loop can make within one ticker period
\* (time.Second) of the cancellation signal: the one of case <-v.ctx.Done()
\* and, after its one-second sleep, one more. The waiter's count of the
\* queries it made after the signal saturates here.
PollsPerInterval == 2

\* ----------------------------------------------------------------- inputs
Ids == {"vm1", "vm2"}
Refs == 1..MaxVMs
\* Contents of the engine's pid file as strconv.Atoi reads it: 0 stands for
\* absent, empty or unparseable.
PidFile == {0, 7}
\* time.Time{} (the zero time), and what time.Now() can answer.
ZeroTime == 0
Times == {1, 2}

\* Engine errors, by what the code asks of them.
\*   ErrNoDomain   : libvirt.IsNotFound(err), text holds "not found"
\*   ErrNotRunning : text holds "is not running"
\*   ErrOther      : anything else (transport failure, internal error)
EngineErrors == {"ErrNoDomain", "ErrNotRunning", "ErrOther"}
IsNotFound(e) == e = "ErrNoDomain"
ContainsNotFound(e) == e = "ErrNoDomain"
ContainsIsNotRunning(e) == e = "ErrNotRunning"

\* virDomainState values, vm.go:332-339
DomainStates == 0..7

\* --------------------------------------------------------------- the VM
\* type VM struct: the fields the operations read or write.
\*   domain  : "nil" until Init renders the descriptor (v.domain)
\*   defined : the domain handle v.domainMeta was returned by DomainDefineXML
\*   cancelled: v.ctx is done (v.cancel was called)
\*   link    : the symbolic link <bundle>/rootfs/<image dir> exists
NoVM ==
    [id |-> "", alloc |-> FALSE, pid |-> 0, started |-> FALSE, exited |-> FALSE,
     exitedAt |-> ZeroTime, terminal |-> FALSE, domain |-> "nil",
     defined |-> FALSE, cancelled |-> FALSE, link |-> FALSE]

\* NewVM, after client.Connect succeeded.
NewVM(id) ==
    [NoVM EXCEPT !.id = id, !.alloc = TRUE]

\* VM.Pid: the value returned. panics when v.domain is nil.
PidPanics(v) == v.domain = "nil"
Pid(v, pf) ==
    IF v.id = "" THEN 0
    ELSE IF v.pid # 0 THEN v.pid
    ELSE pf
\* VM.Pid: the VM after the call (v.pid = pid once the file gave a number).
PidCache(v, pf) ==
    IF v.id = "" THEN v
    ELSE IF v.pid # 0 THEN v
    ELSE IF pf = 0 THEN v
    ELSE [v EXCEPT !.pid = pf]

\* An answer of DomainGetState: [err, state].
GetStateAnswersOf(v) ==
    IF v.defined
    THEN [err : {"nil"}, state : DomainStates] \cup [err : EngineErrors \ {"ErrNotRunning"}, state : {0}]
    ELSE [err : {"ErrNoDomain", "ErrOther"}, state : {0}]

\* Mutant of Status: the shutting-down state is answered as Paused.
StatusShutdownAsPaused(v, pf, ans) ==
    IF ~v.started THEN [status |-> "Created", err |-> "nil"]
    ELSE IF Pid(v, pf) = 0
    THEN IF v.exited THEN [status |-> "Stopped", err |-> "nil"]
         ELSE [status |-> "Unknown", err |-> "nil"]
    ELSE IF ans.err # "nil"
    THEN IF ContainsNotFound(ans.err)
         THEN IF v.exited THEN [status |-> "Stopped", err |-> "nil"]
              ELSE [status |-> "Unknown", err |-> "nil"]
         ELSE [status |-> "Unknown", err |-> ans.err]
    ELSE CASE ans.state = 0 -> [status |-> "Created", err |-> "nil"]
           [] ans.state = 1 -> [status |-> "Running", err |-> "nil"]
           [] ans.state \in {3, 4, 7} -> [status |-> "Paused", err |-> "nil"]
           [] ans.state \in {5, 6} -> [status |-> "Stopped", err |-> "nil"]
           [] OTHER -> [status |-> "Unknown", err |-> "nil"]

\* Mutant of Status: a not-found query failure is answered as Stopped
\* without looking at the exited flag.
StatusNotFoundAsStopped(v, pf, ans) ==
    IF ~v.started THEN [status |-> "Created", err |-> "nil"]
    ELSE IF Pid(v, pf) = 0
    THEN IF v.exited THEN [status |-> "Stopped", err |-> "nil"]
         ELSE [status |-> "Unknown", err |-> "nil"]
    ELSE IF ans.err # "nil"
    THEN IF ContainsNotFound(ans.err)
         THEN [status |-> "Stopped", err |-> "nil"]
         ELSE [status |-> "Unknown", err |-> ans.err]
    ELSE CASE ans.state = 0 -> [status |-> "Created", err |-> "nil"]
           [] ans.state = 1 -> [status |-> "Running", err |-> "nil"]
           [] ans.state \in {3, 7} -> [status |-> "Paused", err |-> "nil"]
           [] ans.state = 4 -> [status |-> "Pausing", err |-> "nil"]
           [] ans.state \in {5, 6} -> [status |-> "Stopped", err |-> "nil"]
           [] OTHER -> [status |-> "Unknown", err |-> "nil"]

\* Mutant of Status: a started VM without a process id is answered as
\* Stopped, marked exited or not.
StatusNoPidAsStopped(v, pf, ans) ==
    IF ~v.started THEN [status |-> "Created", err |-> "nil"]
    ELSE IF Pid(v, pf) = 0
    THEN [status |-> "Stopped", err |-> "nil"]
    ELSE IF ans.err # "nil"
    THEN IF ContainsNotFound(ans.err)
         THEN IF v.exited THEN [status |-> "Stopped", err |-> "nil"]
              ELSE [status |-> "Unknown", err |-> "nil"]
         ELSE [status |-> "Unknown", err |-> ans.err]
    ELSE CASE ans.state = 0 -> [status |-> "Created", err |-> "nil"]
           [] ans.state = 1 -> [status |-> "Running", err |-> "nil"]
           [] ans.state \in {3, 7} -> [status |-> "Paused", err |-> "nil"]
           [] ans.state = 4 -> [status |-> "Pausing", err |-> "nil"]
           [] ans.state \in {5, 6} -> [status |-> "Stopped", err |-> "nil"]
           [] OTHER -> [status |-> "Unknown", err |-> "nil"]

\* Mutant of Status: a VM that was killed before it was started is
\* answered as Stopped.
StatusCreatedUntilKilled(v, pf, ans) ==
    IF ~v.started
    THEN IF v.exited THEN [status |-> "Stopped", err |-> "nil"]
         ELSE [status |-> "Created", err |-> "nil"]
    ELSE IF Pid(v, pf) = 0
    THEN IF v.exited THEN [status |-> "Stopped", err |-> "nil"]
         ELSE [status |-> "Unknown", err |-> "nil"]
    ELSE IF ans.err # "nil"
    THEN IF ContainsNotFound(ans.err)
         THEN IF v.exited THEN [status |-> "Stopped", err |-> "nil"]
              ELSE [status |-> "Unknown", err |-> "nil"]
         ELSE [status |-> "Unknown", err |-> ans.err]
    ELSE CASE ans.state = 0 -> [status |-> "Created", err |-> "nil"]
           [] ans.state = 1 -> [status |-> "Running", err |-> "nil"]
           [] ans.state \in {3, 7} -> [status |-> "Paused", err |-> "nil"]
           [] ans.state = 4 -> [status |-> "Pausing", err |-> "nil"]
           [] ans.state \in {5, 6} -> [status |-> "Stopped", err |-> "nil"]
           [] OTHER -> [status |-> "Unknown", err |-> "nil"]

\* Mutant of Status: the crashed state is not taken for terminal.
StatusCrashedAsUnknown(v, pf, ans) ==
    IF ~v.started THEN [status |-> "Created", err |-> "nil"]
    ELSE IF Pid(v, pf) = 0
    THEN IF v.exited THEN [status |-> "Stopped", err |-> "nil"]
         ELSE [status |-> "Unknown", err |-> "nil"]
    ELSE IF ans.err # "nil"
    THEN IF ContainsNotFound(ans.err)
         THEN IF v.exited THEN [status |-> "Stopped", err |-> "nil"]
              ELSE [status |-> "Unknown", err |-> "nil"]
         ELSE [status |-> "Unknown", err |-> ans.err]
    ELSE CASE ans.state = 0 -> [status |-> "Created", err |-> "nil"]
           [] ans.state = 1 -> [status |-> "Running", err |-> "nil"]
           [] ans.state \in {3, 7} -> [status |-> "Paused", err |-> "nil"]
           [] ans.state = 4 -> [status |-> "Pausing", err |-> "nil"]
           [] ans.state = 5 -> [status |-> "Stopped", err |-> "nil"]
           [] OTHER -> [status |-> "Unknown", err |-> "nil"]

\* VM.Status: [status, err]; pf is what the pid file holds, ans the
\* engine's answer to DomainGetState (asked only on the third branch).
Status(v, pf, ans) ==
    IF ~v.started THEN [status |-> "Created", err |-> "nil"]
    ELSE IF Pid(v, pf) = 0
    THEN IF v.exited THEN [status |-> "Stopped", err |-> "nil"]
         ELSE [status |-> "Unknown", err |-> "nil"]
    ELSE IF ans.err # "nil"
    THEN IF ContainsNotFound(ans.err)
         THEN IF v.exited THEN [status |-> "Stopped", err |-> "nil"]
              ELSE [status |-> "Unknown", err |-> "nil"]
         ELSE [status |-> "Unknown", err |-> ans.err]
    ELSE CASE ans.state = 0 -> [status |-> "Created", err |-> "nil"]
           [] ans.state = 1 -> [status |-> "Running", err |-> "nil"]
           [] ans.state \in {3, 7} -> [status |-> "Paused", err |-> "nil"]
           [] ans.state = 4 -> [status |-> "Pausing", err |-> "nil"]
           [] ans.state \in {5, 6} -> [status |-> "Stopped", err |-> "nil"]
           [] OTHER -> [status |-> "Unknown", err |-> "nil"]
\* VM.Status panics where its call of Pid does.
StatusPanics(v) == v.started /\ PidPanics(v)
\* VM.Status: the VM after the call (Pid may cache the process id).
StatusCache(v, pf) == IF v.started THEN PidCache(v, pf) ELSE v

\* Answers of DomainCreate, DomainDestroy, DomainUndefineFlags. A handle that
\* was never defined names no domain of the engine: the call cannot succeed.
CreateAnswersOf(v) == IF v.defined THEN {"nil", "ErrOther"} ELSE {"ErrNoDomain", "ErrOther"}
DestroyAnswersOf(v) ==
    IF v.defined THEN {"nil", "ErrNoDomain", "ErrNotRunning", "ErrOther"}
    ELSE {"ErrNoDomain", "ErrOther"}
UndefineAnswersOf(v) ==
    IF v.defined THEN {"nil", "ErrNoDomain", "ErrOther"} ELSE {"ErrNoDomain", "ErrOther"}

\* Mutant of VMStart: a start clears what an earlier run left behind.
VMStartClearsExited(v, ans) ==
    IF ans # "nil" THEN v ELSE [v EXCEPT !.started = TRUE, !.exited = FALSE]

\* VM.Start: the error path formats v.domain.Name and panics on a nil domain.
VMStartPanics(v, ans) == ans # "nil" /\ v.domain = "nil"
VMStartErr(v, ans) == ans
VMStart(v, ans) == IF ans # "nil" THEN v ELSE [v EXCEPT !.started = TRUE]

\* Mutant of KillConfirms: the "is not running" text is not looked for.
KillConfirmsWithoutNotRunning(ans) == ans = "nil" \/ IsNotFound(ans)

\* Mutant of VMKill: the already-stopped path returns without marking the
\* VM exited.
VMKillForgetsExitedWhenGone(v, ans, t) ==
    IF ans = "nil"
    THEN [v EXCEPT !.terminal = TRUE, !.exitedAt = t, !.exited = TRUE, !.cancelled = TRUE]
    ELSE IF IsNotFound(ans) \/ ContainsIsNotRunning(ans)
    THEN [v EXCEPT !.terminal = TRUE, !.exitedAt = t, !.cancelled = TRUE]
    ELSE v

\* VM.Kill: confirmed termination on success and on not-found / not-running.
KillConfirms(ans) == ans = "nil" \/ IsNotFound(ans) \/ ContainsIsNotRunning(ans)
VMKillPanics(v, ans) == ~KillConfirms(ans) /\ v.domain = "nil"
VMKillErr(v, ans) == IF KillConfirms(ans) THEN "nil" ELSE ans
VMKill(v, ans, t) ==
    IF KillConfirms(ans)
    THEN [v EXCEPT !.terminal = TRUE, !.exitedAt = t, !.exited = TRUE, !.cancelled = TRUE]
    ELSE v

\* What os.Remove of the link can answer (TRUE: removeErr is not nil): a
\* link that is not there cannot be removed.
RemoveAnswersOf(v) == IF v.link THEN BOOLEAN ELSE {TRUE}

\* Mutant of VMDelete: a failed unlink is carried in the exit status.
VMDeleteCarriesUnlinkFailure(v, ans, rm) ==
    IF ans # "nil" /\ ~IsNotFound(ans)
    THEN [code |-> 1, at |-> v.exitedAt, err |-> ans, callErr |-> "nil"]
    ELSE IF rm
    THEN [code |-> 1, at |-> v.exitedAt, err |-> "removeErr", callErr |-> "nil"]
    ELSE [code |-> 0, at |-> v.exitedAt, err |-> "nil", callErr |-> "nil"]

\* VM.Delete: the exit status [code, at, err] and the call's own error
\* callErr, which is nil on both returns; rm is the deferred os.Remove's
\* answer, which is logged.
VMDelete(v, ans, rm) ==
    IF ans # "nil" /\ ~IsNotFound(ans)
    THEN [code |-> 1, at |-> v.exitedAt, err |-> ans, callErr |-> "nil"]
    ELSE [code |-> 0, at |-> v.exitedAt, err |-> "nil", callErr |-> "nil"]
\* VM.Delete: the VM after the call (the link is gone when os.Remove
\* succeeded).
VMDeleteUnlink(v, rm) == IF rm THEN v ELSE [v EXCEPT !.link = FALSE]

\* ---------------------------------------------------------------- events
\* GetTopic, over the event kinds the service sends and the others it names.
GetTopic(e) ==
    CASE e.kind = "TaskCreate" -> "TaskCreateEventTopic"
      [] e.kind = "TaskStart" -> "TaskStartEventTopic"
      [] e.kind = "TaskOOM" -> "TaskOOMEventTopic"
      [] e.kind = "TaskExit" -> "TaskExitEventTopic"
      [] e.kind = "TaskDelete" -> "TaskDeleteEventTopic"
      [] e.kind = "TaskExecAdded" -> "TaskExecAddedEventTopic"
      [] e.kind = "TaskExecStarted" -> "TaskExecStartedEventTopic"
      [] e.kind = "TaskPaused" -> "TaskPausedEventTopic"
      [] e.kind = "TaskResumed" -> "TaskResumedEventTopic"
      [] e.kind = "TaskCheckpointed" -> "TaskCheckpointedEventTopic"
      [] OTHER -> "TaskUnknownTopic"

Event(kind, id) == [kind |-> kind, id |-> id]

\* ----------------------------------------------------------------- state
VARIABLES
    mu,         \* TaskService.mu: "" when free, else the task id whose Create
                \* holds it and is writing the map
    vm,         \* TaskService.vm: task id -> VM object (0: no entry)
    vms,        \* the VM objects NewVM allocated
    f,          \* TaskService.f, the per-task log file: "nil", "open", "closed"
    events,     \* TaskService.events: the channel's buffer
    closed,     \* close(s.events) was executed
    published,  \* the publisher's calls so far: [topic, e, err]
    sinkClosed, \* publisher.Close was called
    fwd,        \* the forwarding goroutine: "run" or "done"
    waiters,    \* the Wait calls: caller and polling goroutine
    panicked,   \* a goroutine panicked: the process is gone
    sent,       \* history: every event a send put on the channel, in order
    ncalls,     \* history: protocol calls issued
    last,       \* history: the most recent protocol call and how it ended
    script      \* history: per task id, how far the calls made on it follow
                \* Create, Start, Kill, Delete (each succeeding)

vars ==
    <<mu, vm, vms, f, events, closed, published, sinkClosed, fwd, waiters,
      panicked, sent, ncalls, last, script>>

\* A Wait call. ref: the VM waited on; gr: the polling goroutine; ctxDone:
\* the derived context of VM.Wait is done; cc: the caller cancelled the
\* request's context; ret, code, at: the call returned this exit status;
\* polls: Status queries made after the VM's cancellation signal; saw
\* (history): one of its Status queries answered Stopped without error.
NoWaiter ==
    [ref |-> 0, gr |-> "idle", ctxDone |-> FALSE, cc |-> FALSE, ret |-> FALSE,
     code |-> 0, at |-> ZeroTime, polls |-> 0, saw |-> FALSE]

NoAnswer == [err |-> "nil", state |-> 0]
NoStatus == [status |-> "none", err |-> "nil"]

\* What a call leaves in `last`: the operation, the id it named, the VM
\* object it resolved (0: none) and that object before the call, the inputs
\* (engine answer, pid file, DomainGetState answer), the status computed,
\* the exit code answered and the outcome: "ok", "err" or "panic"; exec is
\* a Delete's ExecID and rm its os.Remove answer; rep says that the call
\* before it was the same operation on the same VM object; kind is the
\* protocol error kind of a "process not found" answer; race says that the
\* call read the map while a Create was writing it.
Call(op, id, ref, pre, ans, pf, gs, st, code, out) ==
    [op |-> op, id |-> id, ref |-> ref, pre |-> pre, ans |-> ans, pf |-> pf,
     gs |-> gs, st |-> st, code |-> code, out |-> out, exec |-> "", rep |-> FALSE,
     rm |-> FALSE, kind |-> "none", race |-> FALSE]

NoCall == Call("none", "", 0, NoVM, "nil", 0, NoAnswer, NoStatus, 0, "ok")

\* hvf.Init: the service as constructed, the forwarding goroutine started.
Init ==
    /\ mu = ""
    /\ vm = [i \in Ids |-> 0]
    /\ vms = [r \in Refs |-> NoVM]
    /\ f = "nil"
    /\ events = <<>>
    /\ closed = FALSE
    /\ published = <<>>
    /\ sinkClosed = FALSE
    /\ fwd = "run"
    /\ waiters = [w \in 1..MaxWaiters |-> NoWaiter]
    /\ panicked = FALSE
    /\ sent = <<>>
    /\ ncalls = 0
    /\ last = NoCall
    /\ script = [i \in Ids |-> "none"]

\* A protocol call may be issued (a Create that holds the lock is a call
\* under way and counts).
CanCall == ~panicked /\ ncalls + (IF mu = "" THEN 0 ELSE 1) < MaxCalls

\* The handlers that read the map, s.vm[r.ID], none of them under s.mu.
LookupOps == {"State", "Start", "Delete", "Kill", "Wait", "Connect"}

\* The script of a task id after one more call on it.
ScriptStep(s, c) ==
    IF c.out # "ok" THEN "off"
    ELSE CASE s = "none" /\ c.op = "Create" -> "C"
           [] s = "C" /\ c.op = "Start" -> "CS"
           [] s = "CS" /\ c.op = "Kill" -> "CSK"
           [] s = "CSK" /\ c.op = "Delete" /\ c.exec = "" -> "CSKD"
           [] OTHER -> "off"

\* A call ends: history only.
Returns(c) ==
    /\ ncalls' = ncalls + 1
    /\ last' = [c EXCEPT !.rep = (c.ref # 0 /\ last.op = c.op /\ last.ref = c.ref),
                         !.race = (mu # "" /\ c.op \in LookupOps)]
    /\ script' = [script EXCEPT ![c.id] = ScriptStep(script[c.id], c)]
    /\ panicked' = (c.out = "panic")

\* TaskService.send: a send on a closed channel panics; a full buffer blocks.
SendPanics == closed
CanSend == Len(events) < EventsCap
Send(e) ==
    /\ events' = Append(events, e)
    /\ sent' = Append(sent, e)

NoSend == UNCHANGED <<events, sent>>

\* What the pid file can hold when Pid reads it (it is read only while
\* v.pid is 0), and what DomainGetState can answer when Status asks.
PidFileOf(v) == IF v.pid = 0 /\ v.id # "" THEN PidFile ELSE {0}
StatusAsks(v, pf) == v.started /\ Pid(v, pf) # 0
GetStateOf(v, pf) == IF StatusAsks(v, pf) THEN GetStateAnswersOf(v) ELSE {NoAnswer}

\* The first VM object not yet allocated (0: none left).
FreeRef == IF \E r \in Refs : ~vms[r].alloc
           THEN CHOOSE r \in Refs : ~vms[r].alloc /\ \A q \in Refs : q < r => vms[q].alloc
           ELSE 0

\* Where Create can fail, in the order of its steps.
CreateFailures ==
    {"none", "OpenFile", "readSpec", "Connect", "setupRootFS", "Marshal", "DomainDefineXML"}

\* Mutant of VMInit: the handle is stored before DomainDefineXML's error is
\* looked at.
VMInitKeepsHandleOnError(v, fail) ==
    IF fail = "setupRootFS" THEN v
    ELSE IF fail = "Marshal" THEN [v EXCEPT !.domain = "set", !.link = TRUE]
    ELSE [v EXCEPT !.domain = "set", !.defined = TRUE, !.link = TRUE]

\* VM.Init on a fresh VM: setupRootFS (whose last step makes the link),
\* RenderDomain, Marshal, DomainDefineXML.
VMInit(v, fail) ==
    IF fail = "setupRootFS" THEN v
    ELSE IF fail \in {"Marshal", "DomainDefineXML"} THEN [v EXCEPT !.domain = "set", !.link = TRUE]
    ELSE [v EXCEPT !.domain = "set", !.defined = TRUE, !.link = TRUE]

\* Mutant of CreateSends: the send sits before the check of Init's error.
CreateSendsBeforeInitCheck(fail) == fail \notin {"OpenFile", "readSpec", "Connect"}

\* TaskService.Create reaches its send only when every step before it
\* succeeded.
CreateSends(fail) == fail = "none"

\* TaskService.Create up to s.mu.Lock(): the log file is open, the spec is
\* read, NewVM has connected; the handler takes the lock and starts the
\* map write.
CreateLock(id) ==
    /\ CanCall
    /\ FreeRef # 0
    /\ mu = ""
    /\ mu' = id
    /\ f' = "open"
    /\ UNCHANGED <<vm, vms, events, closed, published, sinkClosed, fwd, waiters, panicked,
                   sent, ncalls, last, script>>

\* TaskService.Create: a failure before the lock returns at once; else the
\* handler, holding the lock, writes the map entry, unlocks, runs VM.Init
\* and sends.
Create(id, fail, term, pf1, pf2) ==
    /\ IF fail \in {"OpenFile", "readSpec", "Connect"}
       THEN /\ CanCall
            /\ f' = IF fail = "OpenFile" THEN f ELSE "open"
            /\ Returns(Call("Create", id, 0, NoVM, "nil", 0, NoAnswer, NoStatus, 0, "err"))
            /\ NoSend
            /\ UNCHANGED <<mu, vm, vms>>
       ELSE /\ ~panicked
            /\ mu = id
            /\ mu' = ""
            /\ FreeRef # 0
            /\ LET r == FreeRef
                   v0 == [NewVM(id) EXCEPT !.terminal = term]
                   v1 == VMInit(v0, fail)
                   v2 == PidCache(v1, pf1)
                   v3 == PidCache(v2, pf2)
               IN /\ f' = f
                  /\ vm' = [vm EXCEPT ![id] = r]
                  /\ pf1 \in PidFileOf(v1)
                  /\ pf2 \in PidFileOf(v2)
                  /\ fail # "none" => pf1 = 0 /\ pf2 = 0
                  /\ IF CreateSends(fail) /\ SendPanics
                     THEN /\ pf1 = 0 /\ pf2 = 0
                          /\ vms' = [vms EXCEPT ![r] = v1]
                          /\ NoSend
                          /\ Returns(Call("Create", id, r, NoVM, "nil", 0, NoAnswer, NoStatus, 0, "panic"))
                     ELSE /\ vms' = [vms EXCEPT ![r] = IF fail = "none" THEN v3 ELSE v1]
                          /\ IF CreateSends(fail)
                             THEN CanSend /\ Send(Event("TaskCreate", id))
                             ELSE NoSend
                          /\ Returns(Call("Create", id, r, NoVM, "nil", 0, NoAnswer, NoStatus, 0,
                                          IF fail = "none" THEN "ok" ELSE "err"))
    /\ UNCHANGED <<closed, published, sinkClosed, fwd, waiters>>

\* Mutant of Lookup: the entry of a VM that was killed is not found.
LookupForgetsExited(id) ==
    IF vm[id] # 0 /\ vms[vm[id]].exited THEN 0 ELSE vm[id]

\* vm, ok := s.vm[r.ID]: the VM object registered for the id (0: !ok).
Lookup(id) == vm[id]

\* errors.New(msg) of github.com/pkg/errors: an error with a text that
\* wraps no other error (is: the errdefs sentinel errors.Is finds in it).
NewError(msg) == [msg |-> msg, is |-> "none"]

\* errdefs.ToGRPC: the status code of the error handed to the protocol
\* layer. An error that is one of the errdefs sentinels gets that
\* sentinel's code; any other error is returned as it is and carries no
\* kind, which the protocol layer reports as Unknown.
ToGRPC(err) ==
    CASE err.is = "ErrInvalidArgument" -> "InvalidArgument"
      [] err.is = "ErrNotFound" -> "NotFound"
      [] err.is = "ErrAlreadyExists" -> "AlreadyExists"
      [] err.is = "ErrFailedPrecondition" -> "FailedPrecondition"
      [] err.is = "ErrUnavailable" -> "Unavailable"
      [] err.is = "ErrNotImplemented" -> "Unimplemented"
      [] OTHER -> "Unknown"

\* The "process not found" answer of a call whose id has no entry.
NotFound(op, id) ==
    /\ Lookup(id) = 0
    /\ Returns([Call(op, id, 0, NoVM, "nil", 0, NoAnswer, NoStatus, 0, "err")
                   EXCEPT !.kind = ToGRPC(NewError("process not found"))])
    /\ UNCHANGED <<mu, vm, vms, f, events, closed, published, sinkClosed, fwd, waiters, sent>>

\* A lookup of the map that runs while a Create is writing it, which no
\* lock excludes: a data race. The lookup may answer as if it ran before or
\* after the write (the handlers below, at any time), or the Go runtime
\* detects the concurrent map read and map write and ends the process.
RaceFault(op, id) ==
    /\ CanCall
    /\ mu # ""
    /\ Returns(Call(op, id, 0, NoVM, "nil", 0, NoAnswer, NoStatus, 0, "panic"))
    /\ UNCHANGED <<mu, vm, vms, f, events, closed, published, sinkClosed, fwd, waiters, sent>>

\* TaskService.Start
Start(id, ans, pf) ==
    /\ CanCall
    /\ IF Lookup(id) = 0
       THEN /\ ans = "nil" /\ pf = 0
            /\ NotFound("Start", id)
       ELSE LET r == Lookup(id)
                v == vms[r]
                v1 == VMStart(v, ans)
                c(out) == Call("Start", id, r, NoVM, ans, 0, NoAnswer, NoStatus, 0, out)
            IN /\ ans \in CreateAnswersOf(v)
               /\ pf \in IF ans = "nil" /\ ~SendPanics THEN PidFileOf(v1) ELSE {0}
               /\ IF VMStartPanics(v, ans)
                  THEN Returns(c("panic")) /\ NoSend /\ UNCHANGED vms
                  ELSE IF VMStartErr(v, ans) # "nil"
                  THEN Returns(c("err")) /\ NoSend /\ UNCHANGED vms
                  ELSE IF PidPanics(v1) \/ SendPanics
                  THEN /\ Returns(c("panic")) /\ NoSend
                       /\ vms' = [vms EXCEPT ![r] = v1]
                  ELSE /\ CanSend
                       /\ vms' = [vms EXCEPT ![r] = PidCache(v1, pf)]
                       /\ Send(Event("TaskExecStarted", id))
                       /\ Returns(c("ok"))
               /\ UNCHANGED <<mu, vm, f, closed, published, sinkClosed, fwd, waiters>>

\* Mutant of Delete: a Delete that returns takes the entry out of the map.
DeleteRemovesEntry(id, ans, pf, exec, rm) ==
    /\ CanCall
    /\ IF Lookup(id) = 0
       THEN /\ ans = "nil" /\ pf = 0 /\ exec = "" /\ ~rm
            /\ NotFound("Delete", id)
       ELSE LET r == Lookup(id)
                v == vms[r]
                es == VMDelete(v, ans, rm)
                v1 == VMDeleteUnlink(v, rm)
                c(out) == [Call("Delete", id, r, NoVM, ans, 0, NoAnswer, NoStatus, es.code, out)
                              EXCEPT !.exec = exec, !.rm = rm]
            IN /\ ans \in UndefineAnswersOf(v)
               /\ rm \in RemoveAnswersOf(v)
               /\ pf \in IF PidPanics(v) THEN {0} ELSE PidFileOf(v)
               /\ IF PidPanics(v) \/ (exec = "" /\ SendPanics)
                  THEN /\ Returns(c("panic")) /\ NoSend /\ vms' = [vms EXCEPT ![r] = v1]
                       /\ UNCHANGED vm
                  ELSE /\ vms' = [vms EXCEPT ![r] = PidCache(v1, pf)]
                       /\ vm' = [vm EXCEPT ![id] = 0]
                       /\ IF exec = ""
                          THEN CanSend /\ Send(Event("TaskDelete", id))
                          ELSE NoSend
                       /\ Returns(c("ok"))
               /\ UNCHANGED <<mu, f, closed, published, sinkClosed, fwd, waiters>>

\* TaskService.Delete; exec is the request's ExecID.
Delete(id, ans, pf, exec, rm) ==
    /\ CanCall
    /\ IF Lookup(id) = 0
       THEN /\ ans = "nil" /\ pf = 0 /\ exec = "" /\ ~rm
            /\ NotFound("Delete", id)
       ELSE LET r == Lookup(id)
                v == vms[r]
                es == VMDelete(v, ans, rm)
                v1 == VMDeleteUnlink(v, rm)
                c(out) == [Call("Delete", id, r, NoVM, ans, 0, NoAnswer, NoStatus, es.code, out)
                              EXCEPT !.exec = exec, !.rm = rm]
            IN /\ ans \in UndefineAnswersOf(v)
               /\ rm \in RemoveAnswersOf(v)
               /\ pf \in IF PidPanics(v) THEN {0} ELSE PidFileOf(v)
               /\ IF es.callErr # "nil"
                  THEN Returns(c("err")) /\ NoSend /\ vms' = [vms EXCEPT ![r] = v1]
                  ELSE IF PidPanics(v) \/ (exec = "" /\ SendPanics)
                  THEN Returns(c("panic")) /\ NoSend /\ vms' = [vms EXCEPT ![r] = v1]
                  ELSE /\ vms' = [vms EXCEPT ![r] = PidCache(v1, pf)]
                       /\ IF exec = ""
                          THEN CanSend /\ Send(Event("TaskDelete", id))
                          ELSE NoSend
                       /\ Returns(c("ok"))
               /\ UNCHANGED <<mu, vm, f, closed, published, sinkClosed, fwd, waiters>>

\* TaskService.Kill
Kill(id, ans, t) ==
    /\ CanCall
    /\ IF Lookup(id) = 0
       THEN /\ ans = "nil" /\ t = 1
            /\ NotFound("Kill", id)
       ELSE LET r == Lookup(id)
                v == vms[r]
                c(out) == Call("Kill", id, r, v, ans, 0, NoAnswer, NoStatus, 0, out)
            IN /\ ans \in DestroyAnswersOf(v)
               /\ ~KillConfirms(ans) => t = 1
               /\ IF VMKillPanics(v, ans)
                  THEN Returns(c("panic")) /\ UNCHANGED vms
                  ELSE /\ vms' = [vms EXCEPT ![r] = VMKill(v, ans, t)]
                       /\ Returns(c(IF VMKillErr(v, ans) = "nil" THEN "ok" ELSE "err"))
               /\ UNCHANGED <<mu, vm, f, events, closed, published, sinkClosed, fwd, waiters, sent>>

\* TaskService.State: VM.Status, then VM.Pid for the response.
State(id, pf1, gs, pf2) ==
    /\ CanCall
    /\ IF Lookup(id) = 0
       THEN /\ pf1 = 0 /\ pf2 = 0 /\ gs = NoAnswer
            /\ NotFound("State", id)
       ELSE LET r == Lookup(id)
                v == vms[r]
                st == Status(v, pf1, gs)
                v1 == StatusCache(v, pf1)
                c(s, out) == Call("State", id, r, v, "nil", pf1, gs, s, 0, out)
            IN /\ pf1 \in IF v.started /\ ~PidPanics(v) THEN PidFileOf(v) ELSE {0}
               /\ gs \in IF PidPanics(v) THEN {NoAnswer} ELSE GetStateOf(v, pf1)
               /\ pf2 \in IF st.err = "nil" /\ ~PidPanics(v) THEN PidFileOf(v1) ELSE {0}
               /\ IF StatusPanics(v)
                  THEN Returns(c(NoStatus, "panic")) /\ UNCHANGED vms
                  ELSE IF st.err # "nil"
                  THEN /\ Returns(c(st, "err"))
                       /\ vms' = [vms EXCEPT ![r] = v1]
                  ELSE IF PidPanics(v1)
                  THEN Returns(c(st, "panic")) /\ UNCHANGED vms
                  ELSE /\ Returns(c(st, "ok"))
                       /\ vms' = [vms EXCEPT ![r] = PidCache(v1, pf2)]
               /\ UNCHANGED <<mu, vm, f, events, closed, published, sinkClosed, fwd, waiters, sent>>

\* TaskService.Connect: the lookup's miss is no error.
Connect(id, pf) ==
    /\ CanCall
    /\ IF Lookup(id) = 0
       THEN /\ pf = 0
            /\ Returns(Call("Connect", id, 0, NoVM, "nil", 0, NoAnswer, NoStatus, 0, "ok"))
            /\ UNCHANGED vms
       ELSE LET r == Lookup(id)
                v == vms[r]
                c(out) == Call("Connect", id, r, NoVM, "nil", 0, NoAnswer, NoStatus, 0, out)
            IN /\ pf \in IF PidPanics(v) THEN {0} ELSE PidFileOf(v)
               /\ IF PidPanics(v)
                  THEN Returns(c("panic")) /\ UNCHANGED vms
                  ELSE /\ Returns(c("ok"))
                       /\ vms' = [vms EXCEPT ![r] = PidCache(v, pf)]
    /\ UNCHANGED <<mu, vm, f, events, closed, published, sinkClosed, fwd, waiters, sent>>

\* TaskService.Pause, Resume, Checkpoint, Exec, ResizePty, CloseIO, Update,
\* Stats: return nil, nil.
NoOps == {"Pause", "Resume", "Checkpoint", "Exec", "ResizePty", "CloseIO", "Update", "Stats"}
\* Mutant of NoOp: Pause on a registered task announces the pause.
NoOpPauseSendsEvent(op, id) ==
    /\ CanCall
    /\ Returns(Call(op, id, vm[id], NoVM, "nil", 0, NoAnswer, NoStatus, 0, "ok"))
    /\ IF op = "Pause" /\ vm[id] # 0 /\ ~closed
       THEN Send(Event("TaskPaused", id))
       ELSE NoSend
    /\ UNCHANGED <<mu, vm, vms, f, closed, published, sinkClosed, fwd, waiters>>

NoOp(op, id) ==
    /\ CanCall
    /\ Returns(Call(op, id, vm[id], NoVM, "nil", 0, NoAnswer, NoStatus, 0, "ok"))
    /\ UNCHANGED <<mu, vm, vms, f, events, closed, published, sinkClosed, fwd, waiters, sent>>

\* TaskService.Pids: s.processes is never written; the answer is empty.
Pids(id) ==
    /\ CanCall
    /\ Returns(Call("Pids", id, vm[id], NoVM, "nil", 0, NoAnswer, NoStatus, 0, "ok"))
    /\ UNCHANGED <<mu, vm, vms, f, events, closed, published, sinkClosed, fwd, waiters, sent>>

\* TaskService.Shutdown: s.cancel(), close(s.events), s.f.Close(). Closing
\* a closed channel panics.
Shutdown ==
    /\ CanCall
    /\ ncalls' = ncalls + 1
    /\ last' = Call("Shutdown", "", 0, NoVM, "nil", 0, NoAnswer, NoStatus, 0,
                    IF closed THEN "panic" ELSE "ok")
    /\ script' = [i \in Ids |-> "off"]
    /\ panicked' = closed
    /\ closed' = TRUE
    /\ f' = IF f # "nil" /\ ~closed THEN "closed" ELSE f
    /\ UNCHANGED <<mu, vm, vms, events, published, sinkClosed, fwd, waiters, sent>>

\* The first waiter slot not yet used (0: none left).
FreeWaiter == IF \E w \in 1..MaxWaiters : waiters[w].ref = 0
              THEN CHOOSE w \in 1..MaxWaiters :
                       waiters[w].ref = 0 /\ \A q \in 1..MaxWaiters : q < w => waiters[q].ref # 0
              ELSE 0

\* TaskService.Wait up to VM.Wait's start of the polling goroutine; the
\* caller then blocks on <-ctx.Done().
Wait(id) ==
    /\ CanCall
    /\ IF Lookup(id) = 0
       THEN NotFound("Wait", id)
       ELSE /\ FreeWaiter # 0
            /\ waiters' = [waiters EXCEPT ![FreeWaiter] = [NoWaiter EXCEPT !.ref = Lookup(id), !.gr = "run"]]
            /\ Returns(Call("Wait", id, Lookup(id), NoVM, "nil", 0, NoAnswer, NoStatus, 0, "ok"))
            /\ UNCHANGED <<mu, vm, vms, f, events, closed, published, sinkClosed, fwd, sent>>

\* Mutant of WaitSeesStopped: the query's error is not looked at and Unknown
\* ends the loop as well.
WaitSeesStoppedOrUnknown(st) == st.status \in {"Stopped", "Unknown"}

\* VM.Wait: err == nil && status.Status == containerd.Stopped
WaitSeesStopped(st) == st.err = "nil" /\ st.status = "Stopped"

\* One Status query of a waiter's goroutine: Stopped without error ends the
\* goroutine after cancel(); anything else goes round the loop.
Poll(w, pf, gs) ==
    LET r == waiters[w].ref
        v == vms[r]
        st == Status(v, pf, gs)
        stopped == WaitSeesStopped(st)
        seen == waiters[w].saw \/ st = [status |-> "Stopped", err |-> "nil"]
        n == IF v.cancelled /\ waiters[w].polls < PollsPerInterval
             THEN waiters[w].polls + 1 ELSE waiters[w].polls
    IN /\ pf \in IF v.started /\ ~PidPanics(v) THEN PidFileOf(v) ELSE {0}
       /\ gs \in IF PidPanics(v) THEN {NoAnswer} ELSE GetStateOf(v, pf)
       /\ IF StatusPanics(v)
          THEN panicked' = TRUE /\ UNCHANGED <<vms, waiters>>
          ELSE /\ vms' = [vms EXCEPT ![r] = StatusCache(v, pf)]
               /\ waiters' = [waiters EXCEPT ![w] =
                     IF stopped
                     THEN [@ EXCEPT !.polls = n, !.saw = seen, !.ctxDone = TRUE, !.gr = "done"]
                     ELSE [@ EXCEPT !.polls = n, !.saw = seen]]
               /\ UNCHANGED panicked
       /\ UNCHANGED <<mu, vm, f, events, closed, published, sinkClosed, fwd, sent, ncalls, last, script>>

\* VM.Wait, case <-ticker.C
WaitTick(w, pf, gs) ==
    /\ ~panicked
    /\ waiters[w].gr = "run"
    /\ Poll(w, pf, gs)

\* VM.Wait, case <-v.ctx.Done(): Kill was invoked. The second's sleep that
\* follows a query that did not see Stopped changes no state.
WaitKilled(w, pf, gs) ==
    /\ ~panicked
    /\ waiters[w].gr = "run"
    /\ vms[waiters[w].ref].cancelled
    /\ Poll(w, pf, gs)

\* Mutant of WaitCtxDone: the case is taken and the loop goes on.
WaitCtxDoneKeepsPolling(w) ==
    /\ ~panicked
    /\ waiters[w].gr = "run"
    /\ waiters[w].ctxDone
    /\ UNCHANGED vars

\* VM.Wait, case <-ctx.Done(): the goroutine returns.
WaitCtxDone(w) ==
    /\ ~panicked
    /\ waiters[w].gr = "run"
    /\ waiters[w].ctxDone
    /\ waiters' = [waiters EXCEPT ![w].gr = "done"]
    /\ UNCHANGED <<mu, vm, vms, f, events, closed, published, sinkClosed, fwd, panicked, sent, ncalls, last, script>>

\* VM.Wait after <-ctx.Done(): exit status 0 at time.Now(), which
\* TaskService.Wait answers.
WaitReturn(w, t) ==
    /\ ~panicked
    /\ waiters[w].ref # 0
    /\ waiters[w].ctxDone
    /\ ~waiters[w].ret
    /\ waiters' = [waiters EXCEPT ![w].ret = TRUE, ![w].code = 0, ![w].at = t]
    /\ UNCHANGED <<mu, vm, vms, f, events, closed, published, sinkClosed, fwd, panicked, sent, ncalls, last, script>>

\* The caller of a Wait cancels the request's context.
CallerCancel(w) ==
    /\ ~panicked
    /\ waiters[w].ref # 0
    /\ ~waiters[w].ctxDone
    /\ waiters' = [waiters EXCEPT ![w].ctxDone = TRUE, ![w].cc = TRUE]
    /\ UNCHANGED <<mu, vm, vms, f, events, closed, published, sinkClosed, fwd, panicked, sent, ncalls, last, script>>

\* Mutant of forward: the event is published and stays at the head of the
\* channel.
forwardKeepsHead(err) ==
    /\ ~panicked
    /\ fwd = "run"
    /\ events # <<>>
    /\ Len(published) < MaxCalls
    /\ published' = Append(published, [topic |-> GetTopic(Head(events)), e |-> Head(events), err |-> err])
    /\ UNCHANGED <<mu, vm, vms, f, events, closed, sinkClosed, fwd, waiters, panicked, sent, ncalls, last, script>>

\* Mutant of forward: a failed publish ends the loop.
forwardStopsOnError(err) ==
    /\ ~panicked
    /\ fwd = "run"
    /\ events # <<>>
    /\ published' = Append(published, [topic |-> GetTopic(Head(events)), e |-> Head(events), err |-> err])
    /\ events' = Tail(events)
    /\ fwd' = IF err THEN "done" ELSE fwd
    /\ UNCHANGED <<mu, vm, vms, f, closed, sinkClosed, waiters, panicked, sent, ncalls, last, script>>

\* TaskService.forward: one round of the range loop; err is the
\* publisher's answer, logged and otherwise ignored.
forward(err) ==
    /\ ~panicked
    /\ fwd = "run"
    /\ events # <<>>
    /\ published' = Append(published, [topic |-> GetTopic(Head(events)), e |-> Head(events), err |-> err])
    /\ events' = Tail(events)
    /\ UNCHANGED <<mu, vm, vms, f, closed, sinkClosed, fwd, waiters, panicked, sent, ncalls, last, script>>

\* Mutant of forwardClose: the loop ends at the close of the channel, with
\* events still in its buffer.
forwardCloseBeforeDrain ==
    /\ ~panicked
    /\ fwd = "run"
    /\ closed
    /\ sinkClosed' = TRUE
    /\ fwd' = "done"
    /\ UNCHANGED <<mu, vm, vms, f, events, closed, published, waiters, panicked, sent, ncalls, last, script>>

\* TaskService.forward: the channel is closed and drained; publisher.Close.
forwardClose ==
    /\ ~panicked
    /\ fwd = "run"
    /\ events = <<>>
    /\ closed
    /\ sinkClosed' = TRUE
    /\ fwd' = "done"
    /\ UNCHANGED <<mu, vm, vms, f, events, closed, published, waiters, panicked, sent, ncalls, last, script>>

AnyAnswer == {"nil"} \cup EngineErrors
AnyGetState == [err : {"nil"}, state : DomainStates] \cup [err : EngineErrors, state : {0}]

Next ==
    \/ \E id \in Ids : CreateLock(id)
    \/ \E id \in Ids, op \in LookupOps : RaceFault(op, id)
    \/ \E id \in Ids, fail \in CreateFailures, term \in {FALSE}, pf1 \in PidFile, pf2 \in PidFile :
           Create(id, fail, term, pf1, pf2)
    \/ \E id \in Ids, ans \in AnyAnswer, pf \in PidFile : Start(id, ans, pf)
    \/ \E id \in Ids, ans \in AnyAnswer, pf \in PidFile, exec \in {"", "exec"}, rm \in BOOLEAN :
           Delete(id, ans, pf, exec, rm)
    \/ \E id \in Ids, ans \in AnyAnswer, t \in Times : Kill(id, ans, t)
    \/ \E id \in Ids, pf1 \in PidFile, gs \in AnyGetState, pf2 \in PidFile : State(id, pf1, gs, pf2)
    \/ \E id \in Ids : Wait(id)
    \/ \E id \in Ids, pf \in PidFile : Connect(id, pf)
    \/ \E id \in Ids, op \in NoOps : NoOp(op, id)
    \/ \E id \in Ids : Pids(id)
    \/ Shutdown
    \/ \E w \in 1..MaxWaiters, pf \in PidFile, gs \in AnyGetState : WaitTick(w, pf, gs)
    \/ \E w \in 1..MaxWaiters, pf \in PidFile, gs \in AnyGetState : WaitKilled(w, pf, gs)
    \/ \E w \in 1..MaxWaiters : WaitCtxDone(w)
    \/ \E w \in 1..MaxWaiters, t \in Times : WaitReturn(w, t)
    \/ \E w \in 1..MaxWaiters : CallerCancel(w)
    \/ \E err \in BOOLEAN : forward(err)
    \/ forwardClose

Spec == Init /\ [][Next]_vars

\* The forwarding goroutine is started once by hvf.Init and only ever blocks
\* on the channel: while an event is queued it is runnable, and the Go
\* scheduler runs it.
FairSpec == Spec /\ WF_vars(\E err \in BOOLEAN : forward(err))

\* Every goroutine that can run does: the forwarding goroutine as above and
\* at the closed, drained channel; the caller of VM.Wait, blocked on
\* <-ctx.Done() alone; and the polling goroutine's case <-ctx.Done(), which
\* stays ready once the context is done and which select, choosing among
\* the ready cases at random, takes in the end.
LiveSpec ==
    /\ Spec
    /\ WF_vars(\E err \in BOOLEAN : forward(err))
    /\ WF_vars(forwardClose)
    /\ \A w \in 1..MaxWaiters :
           /\ WF_vars(WaitCtxDone(w))
           /\ WF_vars(\E t \in Times : WaitReturn(w, t))

\* ------------------------------------------------------------ the claims
\* The topics of the publish calls made for task id, in order.
TopicsOf(id) ==
    LET mine == SelectSeq(published, LAMBDA p : p.e.id = id)
    IN [i \in 1..Len(mine) |-> mine[i].topic]

\* A step that is one protocol call.
IsCall == ncalls' = ncalls + 1

\* C1: once Create, Start, Kill and Delete were called in that order for one
\* task id, each returning success, and the pipeline is drained, exactly four
\* events were published for it, under the create, start, exit and delete
\* topics in that order.
C1_FourEventsInCallOrder ==
    \A id \in Ids :
        script[id] = "CSKD" /\ events = <<>> =>
            TopicsOf(id) = <<"TaskCreateEventTopic", "TaskStartEventTopic",
                             "TaskExitEventTopic", "TaskDeleteEventTopic">>

\* The publish calls made so far, followed by what the channel still holds,
\* are the enqueued events in the order of their enqueue.
PublishedInEnqueueOrder ==
    sent = [i \in 1..Len(published) |-> published[i].e] \o events

\* C2: in every interleaving the publish calls are a prefix of the enqueues,
\* in the order of the enqueues, the rest waiting in the channel (nothing is
\* published twice, out of order or dropped), and while the process lives
\* the n-th event enqueued is in the end the n-th event published.
C2_ForwardedOnceInOrder ==
    /\ []PublishedInEnqueueOrder
    /\ \A n \in 1..MaxCalls : (Len(sent) >= n) ~> (Len(published) >= n \/ panicked)

C2_Witness ==
    /\ Len(published) = 2
    /\ Len(events) = 1
    /\ published[1].e # published[2].e
    /\ published[2].e # events[1]

\* C3: every step enqueues nothing or one event, only a protocol call
\* enqueues, and a call that returns an error enqueues nothing.
C3_AtMostOneEventPerCall ==
    [][/\ sent' = sent \/ (Len(sent') = Len(sent) + 1 /\ SubSeq(sent', 1, Len(sent)) = sent)
       /\ Len(events') <= Len(events) + 1
       /\ sent' # sent => IsCall
       /\ (IsCall /\ last'.out = "err") => (sent' = sent /\ events' = events)]_vars

C3_Witness ==
    /\ last.op = "Start"
    /\ last.out = "err"
    /\ last.ref # 0
    /\ Len(sent) = 1

\* C4: the status a State call answers is the table's entry for (started,
\* exited, resolved pid, engine state), whatever else the VM holds.
C4_EngineRow(state) ==
    CASE state = 0 -> "Created"
      [] state = 1 -> "Running"
      [] state = 3 -> "Paused"
      [] state = 7 -> "Paused"
      [] state = 4 -> "Pausing"
      [] state = 5 -> "Stopped"
      [] state = 6 -> "Stopped"
C4_ResolvedPid == IF last.pre.pid # 0 THEN last.pre.pid ELSE last.pf
C4_StatusIsTheTable ==
    (last.op = "State" /\ last.ref # 0 /\ last.out # "panic") =>
        /\ ~last.pre.started => last.st.status = "Created"
        /\ (last.pre.started /\ C4_ResolvedPid = 0) =>
               last.st.status = IF last.pre.exited THEN "Stopped" ELSE "Unknown"
        /\ (last.pre.started /\ C4_ResolvedPid # 0 /\ last.gs.err = "nil"
              /\ last.gs.state \in {0, 1, 3, 4, 5, 6, 7}) =>
               last.st.status = C4_EngineRow(last.gs.state)

C4_Witness ==
    /\ last.op = "State"
    /\ last.pre.started
    /\ ~last.pre.exited
    /\ last.pre.pid = 0
    /\ last.pf # 0
    /\ last.gs = [err |-> "nil", state |-> 4]
    /\ last.st.status = "Pausing"

\* C5: a started VM with a resolvable pid whose state query fails answers
\* Stopped (if marked exited) or Unknown, without error, on not-found, and
\* Unknown with the error, which the caller gets, on any other failure; a
\* VM not marked exited never answers Stopped or Running then.
C5_QueryFailure ==
    (last.op = "State" /\ last.ref # 0 /\ last.out # "panic"
       /\ last.pre.started /\ C4_ResolvedPid # 0 /\ last.gs.err # "nil") =>
        /\ last.gs.err = "ErrNoDomain" =>
               /\ last.st.status = IF last.pre.exited THEN "Stopped" ELSE "Unknown"
               /\ last.st.err = "nil"
               /\ last.out = "ok"
        /\ last.gs.err # "ErrNoDomain" =>
               /\ last.st.status = "Unknown"
               /\ last.st.err = last.gs.err
               /\ last.out = "err"
        /\ ~last.pre.exited => last.st.status \notin {"Stopped", "Running"}

C5_Witness ==
    /\ last.op = "State"
    /\ last.pre.started
    /\ last.pre.exited
    /\ C4_ResolvedPid # 0
    /\ last.gs.err = "ErrNoDomain"
    /\ last.st.status = "Stopped"

\* The engine answers to DomainDestroy on which Kill confirms termination.
Terminal == {"nil", "ErrNoDomain", "ErrNotRunning"}

\* C6, as claimed: the second of two Kill calls in a row on one VM returns
\* no error, whatever the engine answers.
C6_SecondKillNeverErrs ==
    (last.op = "Kill" /\ last.rep) => last.out # "err"

\* C6, amended: the second of two Kill calls in a row on one VM returns no
\* error when the engine answers its destroy with success, not-found or
\* not-running, and returns an error only on another engine failure.
C6_SecondKillErrsOnlyOnOtherFailure ==
    (last.op = "Kill" /\ last.rep) =>
        /\ last.ans \in Terminal => last.out = "ok"
        /\ last.out = "err" => last.ans = "ErrOther"

C6_Witness ==
    /\ last.op = "Kill"
    /\ last.rep
    /\ last.pre.exited
    /\ last.ans = "ErrNotRunning"
    /\ last.out = "ok"

\* C7: a VM object's exited flag never goes back to false, and a Status
\* query (of a State call or of a waiter's loop) leaves started, exited and
\* the exit time of every VM as they were.
C7_ExitedIsMonotone ==
    [][/\ \A r \in Refs : vms[r].exited => vms'[r].exited
       /\ ((IsCall /\ last'.op = "State") \/ (~IsCall /\ waiters' # waiters)) =>
              \A r \in Refs : /\ vms'[r].started = vms[r].started
                              /\ vms'[r].exited = vms[r].exited
                              /\ vms'[r].exitedAt = vms[r].exitedAt]_vars

C7_Witness ==
    /\ last.op = "Start"
    /\ last.out = "ok"
    /\ vms[last.ref].exited
    /\ vms[last.ref].started

\* C8: a Kill whose destroy the engine answers with success, not-found or
\* not-running returns success and leaves the VM exited with a non-zero
\* exit time and the cancellation signal raised; a new VM's signal is not
\* raised and a raised signal is never lowered, so it rises once.
C8_KillMarksExitedOnce ==
    [][/\ (IsCall /\ last'.op = "Kill" /\ last'.ref # 0 /\ last'.ans \in Terminal) =>
              /\ last'.out = "ok"
              /\ vms'[last'.ref].exited
              /\ vms'[last'.ref].exitedAt # ZeroTime
              /\ vms'[last'.ref].cancelled
       /\ \A r \in Refs :
              /\ vms[r].cancelled => vms'[r].cancelled
              /\ (~vms[r].alloc /\ vms'[r].alloc) => ~vms'[r].cancelled]_vars

C8_Witness ==
    /\ last.op = "Kill"
    /\ last.rep
    /\ last.pre.cancelled
    /\ last.ans = "ErrNoDomain"
    /\ vms[last.ref].cancelled
    /\ vms[last.ref].exited

\* C9: a Kill whose destroy fails with an error other than not-found or
\* not-running returns an error and leaves exited, the exit time and the
\* cancellation signal of the VM as they were, so that it wakes no waiter.
C9_FailedKillReturnsError ==
    [][(IsCall /\ last'.op = "Kill" /\ last'.ref # 0 /\ last'.ans \notin Terminal) =>
           /\ last'.out = "err"
           /\ vms'[last'.ref].exited = vms[last'.ref].exited
           /\ vms'[last'.ref].exitedAt = vms[last'.ref].exitedAt
           /\ vms'[last'.ref].cancelled = vms[last'.ref].cancelled
           /\ waiters' = waiters]_vars

\* C10: a Wait on a VM whose Kill returned success has resolved by the time
\* its loop made the Status queries of one polling interval after the Kill,
\* and a Wait that returned answers a non-negative exit status and a
\* non-zero time.
C10_WaitResolvesAfterKill ==
    \A w \in 1..MaxWaiters :
        /\ (waiters[w].ref # 0 /\ vms[waiters[w].ref].cancelled
              /\ waiters[w].polls >= PollsPerInterval) => waiters[w].ctxDone
        /\ waiters[w].ret => (waiters[w].code >= 0 /\ waiters[w].at # ZeroTime)

\* C11: a Wait that returned while its caller had not cancelled made a
\* Status query that answered Stopped without error (so not every query it
\* made answered Created, Running, Paused, Pausing or Unknown), its derived
\* context is done only for that reason, and every Wait that returned
\* answers exit code 0.
C11_WaitReturnsOnlyOnStopped ==
    \A w \in 1..MaxWaiters :
        /\ (waiters[w].ctxDone /\ ~waiters[w].cc) => waiters[w].saw
        /\ (waiters[w].ret /\ ~waiters[w].cc) => waiters[w].saw
        /\ waiters[w].ret => waiters[w].code = 0

C11_Witness ==
    \E w \in 1..MaxWaiters :
        /\ waiters[w].ret
        /\ ~waiters[w].cc
        /\ waiters[w].saw
        /\ waiters[w].code = 0
        /\ \E u \in 1..MaxWaiters : u # w /\ waiters[u].ref # 0 /\ ~waiters[u].ret /\ ~waiters[u].saw

\* C12: once the caller of a Wait cancelled its context, and while the
\* process lives, the Wait returns a result and its polling goroutine ends,
\* whatever the VM's state.
C12_CancelledWaitReturns ==
    \A w \in 1..MaxWaiters :
        waiters[w].cc ~> (panicked \/ (waiters[w].ret /\ waiters[w].gr = "done"))

C12_Witness ==
    \E w \in 1..MaxWaiters :
        /\ waiters[w].cc
        /\ waiters[w].ret
        /\ waiters[w].gr = "done"
        /\ ~waiters[w].saw
        /\ vms[waiters[w].ref].started
        /\ ~vms[waiters[w].ref].exited

\* The exit code VM.Delete is to answer for an engine answer to the undefine.
C13_CodeFor(ans) == IF ans \in {"nil", "ErrNoDomain"} THEN 0 ELSE 1

\* C13, as claimed: a Delete of a registered VM never returns an error; its
\* exit status is 0 when the undefine succeeded or answered not-found and 1
\* otherwise, whether or not the unlink failed; and the second of two
\* Deletes in a row on one VM answers exit status 0.
C13_SecondDeleteAnswersZero ==
    (last.op = "Delete" /\ last.ref # 0) =>
        /\ last.out # "err"
        /\ last.code = C13_CodeFor(last.ans)
        /\ last.rep => last.code = 0

\* C13, amended: a Delete of a registered VM never returns an error; its
\* exit status is 0 when the undefine succeeded or answered not-found and 1
\* otherwise, whether or not the unlink failed; the second of two Deletes
\* in a row on one VM answers 0 when its own undefine is answered with
\* success or not-found, with or without the link there to remove, and 1
\* only when the engine fails that undefine for another reason.
C13_DeleteStatusFollowsUndefine ==
    (last.op = "Delete" /\ last.ref # 0) =>
        /\ last.out # "err"
        /\ last.code = C13_CodeFor(last.ans)
        /\ (last.rep /\ last.ans \in {"nil", "ErrNoDomain"}) => last.code = 0
        /\ (last.rep /\ last.code # 0) => last.ans = "ErrOther"

C13_Witness ==
    /\ last.op = "Delete"
    /\ last.rep
    /\ last.out = "ok"
    /\ last.ans = "ErrNoDomain"
    /\ last.rm
    /\ ~vms[last.ref].link
    /\ vms[last.ref].defined
    /\ last.code = 0

\* C14: a Delete of a registered VM whose Init did not render the hardware
\* descriptor and defined no domain does not panic: it returns without
\* error, and the process id it answers (and may cache) is 0.
C14_DeleteBeforeInitIsSafe ==
    (last.op = "Delete" /\ last.ref # 0 /\ vms[last.ref].domain = "nil"
       /\ ~vms[last.ref].defined) =>
        /\ last.out = "ok"
        /\ vms[last.ref].pid = 0

\* C15: a State, Start, Delete, Kill or Wait call whose task id has no
\* entry in the map returns an error of the not-found kind, enqueues no
\* event, starts no waiter and leaves the map and every VM as they were.
C15_UnknownIdIsNotFound ==
    [][(IsCall /\ last'.op \in {"State", "Start", "Delete", "Kill", "Wait"} /\ vm[last'.id] = 0) =>
           /\ last'.out = "err"
           /\ last'.kind = "NotFound"
           /\ UNCHANGED <<mu, vm, vms, events, sent, waiters>>]_vars

\* C16: a Pause, Resume, Checkpoint, Exec, ResizePty, CloseIO, Update or
\* Stats call returns success for a registered and for an unregistered task
\* id and changes nothing: not the map, no VM, no waiter, not the log file
\* and not the event pipeline.
C16_UnsupportedOpsAreNoOps ==
    [][(IsCall /\ last'.op \in NoOps) =>
           /\ last'.out = "ok"
           /\ UNCHANGED <<mu, vm, vms, f, events, closed, published, sinkClosed, fwd, waiters, sent>>]_vars

C16_Witness ==
    /\ last.op = "Pause"
    /\ last.out = "ok"
    /\ last.ref # 0
    /\ vms[last.ref].started
    /\ Len(events) = 2

\* C17: the channel is closed once and nothing is sent on it afterwards:
\* no Shutdown ends in the panic of a second close, and no Create, Start or
\* Delete on a VM with a hardware descriptor (whose process id can be read)
\* ends in the panic of a send on the closed channel.
C17_ClosedOnceNoSendAfter ==
    /\ ~(last.op = "Shutdown" /\ last.out = "panic")
    /\ ~(/\ last.op \in {"Create", "Start", "Delete"}
         /\ last.out = "panic"
         /\ last.ref # 0
         /\ vms[last.ref].domain = "set"
         /\ closed)

\* C18: the sink is closed only by the forwarding goroutine, only at the
\* closed and drained channel, and once: afterwards the goroutine is done,
\* the sink stays closed and nothing more is published. And once Shutdown
\* closed the channel, while the process lives, every event enqueued gets
\* published, the sink is closed and the goroutine terminates.
C18_DrainsThenClosesSink ==
    /\ [][/\ (~sinkClosed /\ sinkClosed') => (closed /\ events = <<>> /\ fwd = "run" /\ fwd' = "done")
          /\ sinkClosed => (sinkClosed' /\ published' = published /\ fwd' = "done")
          /\ fwd = "done" => sinkClosed]_vars
    /\ closed ~> (panicked \/ (/\ sinkClosed
                                /\ fwd = "done"
                                /\ events = <<>>
                                /\ sent = [i \in 1..Len(published) |-> published[i].e]))

C18_Witness ==
    /\ last.op = "Shutdown"
    /\ ncalls = MaxCalls
    /\ Len(sent) = MaxCalls - 1
    /\ Len(published) = Len(sent)
    /\ sinkClosed
    /\ fwd = "done"
    /\ ~panicked

\* C19: a publish that fails takes its event off the channel like one that
\* succeeds (the event is not offered again) and leaves the forwarding
\* goroutine running; and, while the process lives, the n-th event enqueued
\* is passed to the publisher as the n-th publish also when the publish of
\* an event before it failed.
C19_FailedPublishDoesNotStall ==
    /\ [][(Len(published') = Len(published) + 1 /\ published'[Len(published')].err) =>
              /\ fwd' = "run"
              /\ events' = Tail(events)
              /\ sent' = sent
              /\ SubSeq(published', 1, Len(published)) = published]_vars
    /\ \A n \in 2..MaxCalls :
           (Len(sent) >= n /\ \E i \in 1..(n - 1) : i <= Len(published) /\ published[i].err)
               ~> (panicked \/ (Len(published) >= n /\ published[n].e = sent[n]))

C19_Witness ==
    /\ Len(published) = 3
    /\ published[1].err
    /\ ~published[2].err
    /\ published[3].err
    /\ sent = [i \in 1..3 |-> published[i].e]
    /\ fwd = "run"

\* C20: no State, Start, Delete, Kill, Wait or Connect call reads the map
\* while a Create holds the lock and is writing its entry.
C20_NoLookupDuringInsert ==
    last.op \in LookupOps => ~last.race

\* C21: a State or Wait call naming a registered task id, whatever state
\* its VM is in (killed, or answered as Stopped by the engine), is never
\* answered "process not found": unless the handler panics it is delegated
\* to the VM registered for the id, and the entry stays in the map.
C21_RecordKeptAfterTerminal ==
    [][(IsCall /\ last'.op \in {"State", "Wait"} /\ vm[last'.id] # 0) =>
           /\ last'.kind = "none"
           /\ last'.out # "panic" => last'.ref = vm[last'.id]
           /\ vm'[last'.id] = vm[last'.id]]_vars

C21_Witness ==
    /\ last.op = "State"
    /\ last.out = "ok"
    /\ last.ref # 0
    /\ last.ref = vm[last.id]
    /\ last.pre.exited
    /\ last.pre.started
    /\ last.st.status = "Stopped"

\* The last call is a State on a VM that was started and on which no Kill
\* has confirmed termination.
C22_StartedNotKilled ==
    /\ last.op = "State"
    /\ last.ref # 0
    /\ last.pre.started
    /\ ~last.pre.exited
    /\ ~last.pre.cancelled

\* C22, as claimed: a Status query of a started VM, before any Kill,
\* answers Running or Created without error, whatever the engine and the
\* pid file answer.
C22_StartedAnswersRunningOrCreated ==
    C22_StartedNotKilled =>
        /\ last.out = "ok"
        /\ last.st.status \in {"Running", "Created"}

\* C22, amended: a Status query of a started VM, before any Kill, answers
\* Unknown without error while no process id is resolved; with a process
\* id it answers Running or Created when the engine reports running or no
\* state; and it answers Stopped only when the engine itself reports the
\* domain shut off or crashed.
C22_StartedStoppedOnlyByEngine ==
    C22_StartedNotKilled =>
        /\ C4_ResolvedPid = 0 => (last.st = [status |-> "Unknown", err |-> "nil"] /\ last.out = "ok")
        /\ (C4_ResolvedPid # 0 /\ last.gs.err = "nil" /\ last.gs.state \in {0, 1}) =>
               (last.st.status \in {"Created", "Running"} /\ last.out = "ok")
        /\ last.st.status = "Stopped" =>
               (C4_ResolvedPid # 0 /\ last.gs.err = "nil" /\ last.gs.state \in {5, 6})

C22_Witness ==
    /\ C22_StartedNotKilled
    /\ last.pre.pid = 0
    /\ last.pf = 0
    /\ last.st.status = "Unknown"
    /\ last.out = "ok"
    /\ vms[last.ref].pid = 0

\* C23: a State call on a VM whose Init succeeded (the descriptor is
\* rendered and the domain defined) and that no Start has started answers
\* Created without error, whether or not a process id is cached, the pid
\* file holds one or a Kill has marked the VM exited; the engine's state is
\* not asked for.
C23_CreatedBeforeStart ==
    (/\ last.op = "State"
     /\ last.ref # 0
     /\ last.pre.domain = "set"
     /\ last.pre.defined
     /\ ~last.pre.started) =>
        /\ last.st = [status |-> "Created", err |-> "nil"]
        /\ last.out = "ok"
        /\ last.gs = NoAnswer

C23_Witness ==
    /\ last.op = "State"
    /\ last.ref # 0
    /\ last.pre.defined
    /\ ~last.pre.started
    /\ last.pre.exited
    /\ last.pre.pid # 0
    /\ last.st.status = "Created"
    /\ last.out = "ok"

\* C24: a Start call on a registered VM whose instantiate request the
\* engine fails returns an error, leaves started as it was and enqueues
\* nothing; one the engine accepts leaves started true; started becomes
\* true only in such a step and never goes back to false.
C24_StartFailureReturnsError ==
    [][/\ (IsCall /\ last'.op = "Start" /\ last'.ref # 0 /\ last'.ans # "nil") =>
              /\ last'.out = "err"
              /\ vms'[last'.ref].started = vms[last'.ref].started
              /\ sent' = sent
       /\ (IsCall /\ last'.op = "Start" /\ last'.ref # 0 /\ last'.ans = "nil") =>
              vms'[last'.ref].started
       /\ \A r \in Refs :
              /\ vms[r].started => vms'[r].started
              /\ (~vms[r].started /\ vms'[r].started) =>
                     (IsCall /\ last'.op = "Start" /\ last'.ref = r /\ last'.ans = "nil")]_vars

\* C25: the ids registered in the map only grow and only a Create writes
\* the map; a State, Kill, Wait or Delete call that follows a Delete that
\* returned, on the same task id, is not answered "process not found" but
\* is delegated (unless the handler panics) to the VM object the Delete
\* was delegated to; and when that call is a Delete with an empty ExecID
\* that returns, it enqueues one more delete event for the id.
C25_MapOnlyGrows ==
    [][/\ \A id \in Ids : vm[id] # 0 => vm'[id] # 0
       /\ vm' # vm => (IsCall /\ last'.op = "Create")
       /\ (/\ IsCall
           /\ last.op = "Delete" /\ last.ref # 0 /\ last.out = "ok"
           /\ last'.id = last.id
           /\ last'.op \in {"State", "Kill", "Wait", "Delete"}) =>
              /\ last'.kind = "none"
              /\ last'.out # "panic" => last'.ref = last.ref
              /\ (last'.op = "Delete" /\ last'.exec = "" /\ last'.out = "ok") =>
                     sent' = Append(sent, Event("TaskDelete", last'.id))]_vars

C25_Witness ==
    /\ last.op = "Delete"
    /\ last.rep
    /\ last.out = "ok"
    /\ last.exec = ""
    /\ vm[last.id] = last.ref
    /\ Len(sent) = 3
    /\ sent[2] = Event("TaskDelete", last.id)
    /\ sent[3] = Event("TaskDelete", last.id)

\* A State, Start, Kill or Delete call that follows a Create that
\* registered a VM and returned an error, on the same task id, is not
\* answered "process not found" but is delegated (unless the handler
\* panics) to the VM that Create registered.
C26_DelegatedAfterFailedCreate ==
    (/\ IsCall
     /\ last.op = "Create" /\ last.ref # 0 /\ last.out = "err"
     /\ last'.id = last.id
     /\ last'.op \in {"State", "Start", "Kill", "Delete"}) =>
        /\ last'.kind = "none"
        /\ last'.out # "panic" => last'.ref = last.ref

\* C26, as claimed: a Create that fails after NewVM (in VM.Init) enqueues
\* nothing and leaves the map changed, the id registered to a VM without
\* hardware descriptor and without domain handle, to which later calls are
\* delegated.
C26_FailedCreateLeavesBareVM ==
    [][/\ (IsCall /\ last'.op = "Create" /\ last'.ref # 0 /\ last'.out = "err") =>
              /\ sent' = sent
              /\ vm' # vm
              /\ vm'[last'.id] = last'.ref
              /\ ~vms'[last'.ref].defined
              /\ vms'[last'.ref].domain = "nil"
       /\ C26_DelegatedAfterFailedCreate]_vars

\* C26, amended: a Create that fails after NewVM (in VM.Init) enqueues
\* nothing and leaves the map changed, the id registered to a VM without
\* domain handle, to which later calls are delegated; the VM is without
\* hardware descriptor exactly when Init failed in setupRootFS (the link
\* was not made), and holds the rendered descriptor when Marshal or
\* DomainDefineXML failed.
C26_FailedCreateLeavesVMWithoutHandle ==
    [][/\ (IsCall /\ last'.op = "Create" /\ last'.ref # 0 /\ last'.out = "err") =>
              /\ sent' = sent
              /\ vm' # vm
              /\ vm'[last'.id] = last'.ref
              /\ ~vms'[last'.ref].defined
              /\ vms'[last'.ref].domain = "nil" <=> ~vms'[last'.ref].link
       /\ C26_DelegatedAfterFailedCreate]_vars

C26_Witness ==
    /\ last.op = "State"
    /\ last.out = "ok"
    /\ last.ref # 0
    /\ vm[last.id] = last.ref
    /\ ~last.pre.defined
    /\ last.pre.domain = "set"
    /\ sent = <<>>
    /\ script[last.id] = "off"

\* The engine's answers that report a domain shut off or crashed.
C27_ShutOff == [err : {"nil"}, state : {5, 6}]

\* C27: a State call on a started VM that is not marked exited and whose
\* process id is not resolved answers Unknown without asking the engine;
\* while the VM stays so, the context of a Wait on it becomes done only by
\* its caller's cancellation; and a Status query of a waiter's loop on a
\* started VM with a cached process id, which the engine answers with shut
\* off or crashed, resolves the Wait at that query.
C27_NoPidNeverStopsWait ==
    /\ []((C22_StartedNotKilled /\ C4_ResolvedPid = 0) =>
             (last.st = [status |-> "Unknown", err |-> "nil"] /\ last.gs = NoAnswer))
    /\ [][\A w \in 1..MaxWaiters :
             waiters[w].ref # 0 =>
                 /\ (/\ vms[waiters[w].ref].started
                     /\ ~vms[waiters[w].ref].exited
                     /\ vms[waiters[w].ref].pid = 0
                     /\ vms'[waiters[w].ref].pid = 0
                     /\ ~waiters[w].ctxDone
                     /\ waiters'[w].ctxDone) => waiters'[w].cc
                 /\ \A pf \in PidFile, gs \in C27_ShutOff :
                        (/\ vms[waiters[w].ref].started
                         /\ vms[waiters[w].ref].pid # 0
                         /\ WaitTick(w, pf, gs) \/ WaitKilled(w, pf, gs)) =>
                            /\ waiters'[w].saw
                            /\ waiters'[w].ctxDone
                            /\ waiters'[w].gr = "done"]_vars

C27_Witness ==
    \E w \in 1..MaxWaiters :
        /\ waiters[w].ref # 0
        /\ waiters[w].ret
        /\ waiters[w].saw
        /\ ~waiters[w].cc
        /\ vms[waiters[w].ref].started
        /\ ~vms[waiters[w].ref].exited
        /\ ~vms[waiters[w].ref].cancelled
        /\ vms[waiters[w].ref].pid # 0

====
